---- MODULE Spec2Model ----
(***************************************************************************)
(* Model of tabbed_admin/admin.py: TabbedModelAdmin, the adapter that      *)
(* turns a tab specification into the fieldsets and inlines of a Django    *)
(* ModelAdmin.                                                             *)
(*                                                                         *)
(* Python values are records [type, elems, name]: `type` is the exact      *)
(* Python type (the code tests type(x), not isinstance), `elems` the       *)
(* elements of a tuple or list, `name` the text of a str or the __name__   *)
(* of a class.  Two values are equal in Python exactly when the records    *)
(* are equal: a tuple never equals a list, classes compare by identity.    *)
(***************************************************************************)
EXTENDS Naturals, Sequences, FiniteSets, TLC

VARIABLES tabs, fieldsets, inlines, coll, ret, host

vars == <<tabs, fieldsets, inlines, coll, ret, host>>

(* ---------------------------------------------------------------------- *)
(* Bounds                                                                 *)
(* ---------------------------------------------------------------------- *)
\* a tab specification has at most MaxSize tabs and tab entries in total
MaxSize == 4
\* add_tabbed_item is applied to base collections of at most MaxBase items
MaxBase == 2
\* ... and to at most MaxItems items to add
MaxItems == 3

(* ---------------------------------------------------------------------- *)
(* Python values                                                          *)
(* ---------------------------------------------------------------------- *)
Mk(t, e, n) == [type |-> t, elems |-> e, name |-> n]
None == Mk("NoneType", <<>>, "")
Str(s) == Mk("str", <<>>, s)
Class(n) == Mk("class", <<>>, n)
Dict(n) == Mk("dict", <<>>, n)
Tuple(e) == Mk("tuple", e, "")
List(e) == Mk("list", e, "")

\* the types the code accepts as "a list or a tuple": type(x) in [tuple, list]
SeqTypes == {"tuple", "list"}

\* bool(x), as tested by `if self.tabs:` and `if items_to_add:`
Truthy(v) ==
    CASE v.type \in SeqTypes -> Len(v.elems) > 0
      [] v.type = "NoneType" -> FALSE
      [] v.type = "str" -> v.name # ""
      [] OTHER -> TRUE

\* hasattr(x, '__name__'): classes have a __name__, instances do not
HasName(v) == v.type = "class"

\* the outcome of a call: the exception raised ("none" when it returns) and
\* the value returned
Return(v) == [exc |-> "none", val |-> v]
Raise(e) == [exc |-> e, val |-> None]

\* the empty dict {} and d[k] on a dict
EmptyDict == [k \in {} |-> None]
GetItem(d, k) == IF k \in DOMAIN d THEN Return(d[k]) ELSE Raise("KeyError")

(* ---------------------------------------------------------------------- *)
(* parse_fieldsets_inlines_from_tabs                                      *)
(* ---------------------------------------------------------------------- *)
\* type(x) in [tuple, list]
IsListOrTuple(v) == v.type \in SeqTypes

\* faulty variant of TabError: the check of the entries component is missing
TabErrorNoEntriesCheck(tab) ==
    IF ~IsListOrTuple(tab) THEN "TypeError"
    ELSE IF Len(tab.elems) # 2 THEN "ValueError"
    ELSE "none"

\* the three integrity checks made on each tab: the exception raised, or
\* "none" when the tab passes
TabError(tab) ==
    IF ~IsListOrTuple(tab) THEN "TypeError"
    ELSE IF Len(tab.elems) # 2 THEN "ValueError"
    ELSE IF ~IsListOrTuple(tab.elems[2]) THEN "TypeError"
    ELSE "none"

\* faulty variant of FormatEntry: only a list or tuple of two elements is
\* taken for a fieldset
FormatEntryPairsOnly(tab_entry) ==
    IF IsListOrTuple(tab_entry) /\ Len(tab_entry.elems) = 2
    THEN [exc |-> "none", kind |-> "fieldset",
          formatted |-> [type |-> "fieldset",
                         name |-> tab_entry.elems[1],
                         config |-> tab_entry.elems[2]]]
    ELSE IF ~HasName(tab_entry)
         THEN [exc |-> "AttributeError", kind |-> "inline", formatted |-> <<>>]
         ELSE [exc |-> "none", kind |-> "inline",
               formatted |-> [type |-> "inline", name |-> Str(tab_entry.name)]]

\* one turn of the loop over the entries of a tab: the kind given to the
\* entry, its formatted form, or the exception raised while formatting it
FormatEntry(tab_entry) ==
    IF IsListOrTuple(tab_entry)
    THEN IF Len(tab_entry.elems) < 2
         THEN [exc |-> "IndexError", kind |-> "fieldset", formatted |-> <<>>]
         ELSE [exc |-> "none", kind |-> "fieldset",
               formatted |-> [type |-> "fieldset",
                              name |-> tab_entry.elems[1],
                              config |-> tab_entry.elems[2]]]
    ELSE IF ~HasName(tab_entry)
         THEN [exc |-> "AttributeError", kind |-> "inline", formatted |-> <<>>]
         ELSE [exc |-> "none", kind |-> "inline",
               formatted |-> [type |-> "inline", name |-> Str(tab_entry.name)]]

\* the loop over tab[1]; acc carries tabs_fieldsets, tabs_inlines and the
\* entries of the formatted tab
RECURSIVE EntryLoop(_, _, _)
EntryLoop(entries, j, acc) ==
    IF j > Len(entries) \/ acc.exc # "none" THEN acc
    ELSE LET tab_entry == entries[j]
             f == FormatEntry(tab_entry)
         IN  IF f.exc # "none" THEN [acc EXCEPT !.exc = f.exc]
             ELSE IF f.kind = "fieldset"
             THEN EntryLoop(entries, j + 1,
                     [acc EXCEPT !.fieldsets = Append(@, tab_entry),
                                 !.entries = Append(@, f.formatted)])
             ELSE EntryLoop(entries, j + 1,
                     [acc EXCEPT !.inlines = Append(@, tab_entry),
                                 !.entries = Append(@, f.formatted)])

\* the loop over the tabs; acc carries tabs_fieldsets, tabs_inlines and
\* formatted_tabs['fields']
RECURSIVE TabLoop(_, _, _)
TabLoop(ts, i, acc) ==
    IF i > Len(ts) \/ acc.exc # "none" THEN acc
    ELSE LET tab == ts[i]
             err == TabError(tab)
         IN  IF err # "none" THEN [acc EXCEPT !.exc = err]
             ELSE LET r == EntryLoop(tab.elems[2].elems, 1,
                                [exc |-> "none", fieldsets |-> acc.fieldsets,
                                 inlines |-> acc.inlines, entries |-> <<>>])
                  IN  IF r.exc # "none" THEN [acc EXCEPT !.exc = r.exc]
                      ELSE TabLoop(ts, i + 1,
                              [exc |-> "none", fieldsets |-> r.fieldsets,
                               inlines |-> r.inlines,
                               fields |-> Append(acc.fields,
                                             [name |-> tab.elems[1],
                                              entries |-> r.entries])])

\* faulty variant of parse_fieldsets_inlines_from_tabs: the two derived
\* collections are stored under each other's key
ParseSwapsCollections(t) ==
    IF ~IsListOrTuple(t) THEN Raise("TypeError")
    ELSE LET r == TabLoop(t.elems, 1,
                     [exc |-> "none", fieldsets |-> <<>>, inlines |-> <<>>,
                      fields |-> <<>>])
         IN  IF r.exc # "none" THEN Raise(r.exc)
             ELSE Return([fields |-> r.fields,
                          fieldsets |-> Tuple(r.inlines),
                          inlines |-> Tuple(r.fieldsets)])

\* get_tabs returns self.tabs; iterating None raises TypeError
parse_fieldsets_inlines_from_tabs(t) ==
    IF ~IsListOrTuple(t) THEN Raise("TypeError")
    ELSE LET r == TabLoop(t.elems, 1,
                     [exc |-> "none", fieldsets |-> <<>>, inlines |-> <<>>,
                      fields |-> <<>>])
         IN  IF r.exc # "none" THEN Raise(r.exc)
             ELSE Return([fields |-> r.fields,
                          fieldsets |-> Tuple(r.fieldsets),
                          inlines |-> Tuple(r.inlines)])

\* get_formatted_tabs: the parse of a truthy self.tabs, else {}
get_formatted_tabs(t) ==
    IF Truthy(t) THEN parse_fieldsets_inlines_from_tabs(t)
    ELSE Return(EmptyDict)

(* ---------------------------------------------------------------------- *)
(* add_tabbed_item                                                        *)
(* ---------------------------------------------------------------------- *)
\* faulty variant of Contains: no item is ever found
ContainsNothing(collection, item) == FALSE

\* `item not in collection`; None is not a container
Contains(collection, item) == \E k \in 1..Len(collection.elems) : collection.elems[k] = item

\* faulty variant of AddItem: the new item is put in front
AddItemInFront(collection, item) ==
    IF Contains(collection, item) THEN collection
    ELSE IF collection.type = "tuple" THEN Tuple(<<item>> \o collection.elems)
    ELSE IF collection.type = "list" THEN List(<<item>> \o collection.elems)
    ELSE collection

\* one turn of the loop: collection + (item, ) on a tuple, append on a list,
\* nothing on any other type
AddItem(collection, item) ==
    IF Contains(collection, item) THEN collection
    ELSE IF collection.type = "tuple" THEN Tuple(Append(collection.elems, item))
    ELSE IF collection.type = "list" THEN List(Append(collection.elems, item))
    ELSE collection

RECURSIVE AddLoop(_, _, _)
AddLoop(items, i, collection) ==
    IF i > Len(items) THEN collection
    ELSE AddLoop(items, i + 1, AddItem(collection, items[i]))

\* the value add_tabbed_item returns
add_tabbed_item(items_to_add, collection) ==
    IF ~Truthy(items_to_add) THEN Return(collection)
    ELSE IF ~IsListOrTuple(collection) THEN Raise("TypeError")
    ELSE Return(AddLoop(items_to_add.elems, 1, collection))

\* the object passed as `collection`, after the call: a list is appended to
\* in place (it is the object returned), a tuple is rebound locally
CollectionAfter(items_to_add, collection) ==
    IF collection.type = "list" /\ Truthy(items_to_add)
    THEN AddLoop(items_to_add.elems, 1, collection)
    ELSE collection

(* ---------------------------------------------------------------------- *)
(* get_fieldsets, get_inlines                                             *)
(* ---------------------------------------------------------------------- *)
\* faulty variant of BaseCollection: the declared collection is kept
KeepDeclared(t, declared) == declared

\* the base collection: the declared one, or () when tabs is set
BaseCollection(t, declared) == IF t # None THEN Tuple(<<>>) ELSE declared

\* add_tabbed_item(tabs_items, base), tabs_items being the outcome of the
\* subscript formatted_tabs[key]
MergeInto(tabs_items, base) ==
    IF tabs_items.exc # "none" THEN tabs_items
    ELSE add_tabbed_item(tabs_items.val, base)

\* the subscript on the outcome of get_formatted_tabs
Subscript(formatted, key) ==
    IF formatted.exc # "none" THEN formatted
    ELSE GetItem(formatted.val, key)

\* get_fieldsets and get_inlines differ in the key they read and in the
\* order of two statements that cannot both raise
GetTabbed(t, declared, key) ==
    MergeInto(Subscript(get_formatted_tabs(t), key), BaseCollection(t, declared))

get_fieldsets(t, declared) == GetTabbed(t, declared, "fieldsets")
get_inlines(t, declared) == GetTabbed(t, declared, "inlines")

\* the object `base` after add_tabbed_item(tabs_items, base)
MergedInto(tabs_items, base) ==
    IF tabs_items.exc # "none" THEN base
    ELSE CollectionAfter(tabs_items.val, base)

\* self.fieldsets / self.inlines after the call: they are passed to
\* add_tabbed_item only when tabs is None
DeclaredAfter(t, declared, key) ==
    IF t = None
    THEN MergedInto(Subscript(get_formatted_tabs(t), key), declared)
    ELSE declared

(* ---------------------------------------------------------------------- *)
(* change_view                                                            *)
(* ---------------------------------------------------------------------- *)
\* ModelAdmin.change_view as the adapter sees it: a host that does not take
\* form_url raises TypeError on the keyword; otherwise it may fail by
\* itself (fault), and it builds the page from get_fieldsets and
\* get_inlines, whose exceptions pass through it.  The response is a
\* template response (with context_data) or a redirect (without).
HostPage(f, i, form_url, accepts, fault, response) ==
    IF form_url /\ ~accepts THEN Raise("TypeError")
    ELSE IF fault # "none" THEN Raise(fault)
    ELSE IF f.exc # "none" THEN Raise(f.exc)
    ELSE IF i.exc # "none" THEN Raise(i.exc)
    ELSE Return([kind |-> response, context_data |-> EmptyDict])

HostChangeView(t, fs, inl, form_url, accepts, fault, response) ==
    HostPage(get_fieldsets(t, fs), get_inlines(t, inl), form_url, accepts, fault, response)

\* `except TypeError:` is the only handler of the first call
CaughtByChangeView(exc) == exc = "TypeError"

\* context_data.update({'tabs': ...}) on a response that has context_data
UpdateContext(view, calls, formatted) ==
    IF view.exc # "none" THEN [exc |-> view.exc, val |-> None, calls |-> calls]
    ELSE IF view.val.kind # "template"
    THEN [exc |-> "none", val |-> view.val, calls |-> calls]
    ELSE IF formatted.exc # "none"
    THEN [exc |-> formatted.exc, val |-> None, calls |-> calls]
    ELSE [exc |-> "none",
          val |-> [kind |-> "template", context_data |-> [tabs |-> formatted.val]],
          calls |-> calls]

\* the try statement, first being the outcome of the call with form_url
TryExcept(t, fs, inl, accepts, fault, response, first) ==
    IF CaughtByChangeView(first.exc)
    THEN UpdateContext(HostChangeView(t, fs, inl, FALSE, accepts, fault, response),
                       2, get_formatted_tabs(t))
    ELSE UpdateContext(first, 1, get_formatted_tabs(t))

\* change_view: the outcome and the number of calls of the host's view
change_view(t, fs, inl, accepts, fault, response) ==
    TryExcept(t, fs, inl, accepts, fault, response,
              HostChangeView(t, fs, inl, TRUE, accepts, fault, response))

(* ---------------------------------------------------------------------- *)
(* Configurations                                                         *)
(* ---------------------------------------------------------------------- *)
RECURSIVE SeqsOfLen(_, _)
SeqsOfLen(S, n) ==
    IF n = 0 THEN {<<>>}
    ELSE {<<x>> \o s : x \in S, s \in SeqsOfLen(S, n - 1)}

SeqsUpTo(S, n) == UNION {SeqsOfLen(S, k) : k \in 0..n}

\* field groups: (name, config) pairs, and one with a third element
FsNames == Tuple(<<Str("Names"), Dict("names")>>)
FsDates == List(<<Str("Dates"), Dict("dates")>>)
FsTriple == Tuple(<<Str("Notes"), Dict("notes"), Str("more")>>)
FsStatic == Tuple(<<Str("Static"), Dict("static")>>)
\* inline classes
InlineA == Class("InlineA")
InlineStatic == Class("InlineStatic")
\* entries the parser cannot format: a one-element tuple, an instance
ShortEntry == Tuple(<<Str("Alone")>>)
Instance == Str("InlineA")

Entries == {FsNames, FsTriple, InlineA, ShortEntry, Instance}
PlainEntries == {FsNames, InlineA}
Labels == {Str("Main"), Str("Extra")}

\* tabs that pass the three integrity checks, with k entries
GoodTabs(L, E, k) == {Tuple(<<l, Tuple(e)>>) : l \in L, e \in SeqsOfLen(E, k)}
\* tabs that fail one: not a list or tuple, one element, three elements,
\* entries that are not a list or tuple
BadTabs == {Str("Main"),
            Tuple(<<Str("Main")>>),
            Tuple(<<Str("Main"), Tuple(<<>>), Tuple(<<>>)>>),
            Tuple(<<Str("Main"), InlineA>>)}

\* a tab counts for one plus the number of its entries
TabsOfSize(L, E, B, w) == GoodTabs(L, E, w - 1) \cup (IF w = 1 THEN B ELSE {})

RECURSIVE TabSeqsOfSize(_, _, _, _)
TabSeqsOfSize(L, E, B, w) ==
    IF w = 0 THEN {<<>>}
    ELSE UNION {LET rests == TabSeqsOfSize(L, E, B, w - k)
                IN  {<<tab>> \o rest : tab \in TabsOfSize(L, E, B, k), rest \in rests}
                : k \in 1..w}

TabSeqs(L, E, B) == UNION {TabSeqsOfSize(L, E, B, w) : w \in 0..MaxSize}

\* the values of the class attribute `tabs`: None (the default), or a tuple
\* of tabs that pass the integrity checks, with entries of every kind, or a
\* tuple of tabs some of which fail them
TabSpecs ==
    {None}
    \cup {Tuple(ts) : ts \in TabSeqs(Labels, Entries, {})}
    \cup {Tuple(ts) : ts \in TabSeqs({Str("Main")}, PlainEntries, BadTabs)}

\* the declared fieldsets and inlines of the ModelAdmin
DeclaredFieldsets == Tuple(<<FsStatic, FsNames>>)
DeclaredInlines == List(<<InlineStatic, InlineA>>)

\* the items add_tabbed_item is applied to: bases of both types, and items to
\* add in a tuple, as the parser builds them
Items == {FsNames, FsDates, InlineA}
Bases == {Tuple(e) : e \in SeqsUpTo(Items, MaxBase)} \cup {List(e) : e \in SeqsUpTo(Items, MaxBase)}
ItemsToAdd == {Tuple(e) : e \in SeqsUpTo(Items, MaxItems)}

HostFaults == {"none", "PermissionDenied"}
Responses == {"template", "redirect"}

(* ---------------------------------------------------------------------- *)
(* State machine                                                          *)
(* ---------------------------------------------------------------------- *)
\* ret is the outcome of the last call: the method, its arguments other
\* than self, the exception raised and the value returned
Outcome(op, args, r) == [op |-> op, args |-> args, exc |-> r.exc, val |-> r.val]

Init ==
    /\ tabs \in TabSpecs
    /\ fieldsets = DeclaredFieldsets
    /\ inlines = DeclaredInlines
    /\ coll = Tuple(<<>>)
    /\ ret = Outcome("init", <<>>, Return(None))
    /\ host = 0

GetFieldsets ==
    /\ ret' = Outcome("get_fieldsets", <<>>, get_fieldsets(tabs, fieldsets))
    /\ fieldsets' = DeclaredAfter(tabs, fieldsets, "fieldsets")
    /\ UNCHANGED <<tabs, inlines, coll, host>>

GetInlines ==
    /\ ret' = Outcome("get_inlines", <<>>, get_inlines(tabs, inlines))
    /\ inlines' = DeclaredAfter(tabs, inlines, "inlines")
    /\ UNCHANGED <<tabs, fieldsets, coll, host>>

GetFormattedTabs ==
    /\ ret' = Outcome("get_formatted_tabs", <<>>, get_formatted_tabs(tabs))
    /\ UNCHANGED <<tabs, fieldsets, inlines, coll, host>>

ParseFieldsetsInlinesFromTabs ==
    /\ ret' = Outcome("parse_fieldsets_inlines_from_tabs", <<>>,
                      parse_fieldsets_inlines_from_tabs(tabs))
    /\ UNCHANGED <<tabs, fieldsets, inlines, coll, host>>

\* the declared collection after the host's view: the host asks for the
\* fieldsets, then for the inlines, unless it failed before
AfterHost(t, declared, key, asked) ==
    IF asked THEN DeclaredAfter(t, declared, key) ELSE declared

ChangeView ==
    \E accepts \in BOOLEAN, fault \in HostFaults, response \in Responses :
        \E r \in {change_view(tabs, fieldsets, inlines, accepts, fault, response)} :
            /\ ret' = Outcome("change_view", <<accepts, fault, response>>, r)
            /\ host' = r.calls
            /\ fieldsets' = AfterHost(tabs, fieldsets, "fieldsets",
                                fault = "none" /\ (accepts \/ r.calls = 2))
            /\ inlines' = AfterHost(tabs, inlines, "inlines",
                              /\ fault = "none"
                              /\ (accepts \/ r.calls = 2)
                              /\ get_fieldsets(tabs, fieldsets).exc = "none")
            /\ UNCHANGED <<tabs, coll>>

\* add_tabbed_item called on the collection object coll
AddTabbedItem ==
    \E items_to_add \in ItemsToAdd :
        /\ ret' = Outcome("add_tabbed_item", <<items_to_add, coll>>,
                          add_tabbed_item(items_to_add, coll))
        /\ coll' = CollectionAfter(items_to_add, coll)
        /\ UNCHANGED <<tabs, fieldsets, inlines, host>>

Next ==
    \/ GetFieldsets
    \/ GetInlines
    \/ GetFormattedTabs
    \/ ParseFieldsetsInlinesFromTabs

Spec == Init /\ [][Next]_vars

\* requests for the change page
NextView == ChangeView

SpecView == Init /\ [][NextView]_vars

\* add_tabbed_item alone, over every base collection and every items_to_add
InitMerge ==
    /\ tabs = None
    /\ fieldsets = DeclaredFieldsets
    /\ inlines = DeclaredInlines
    /\ coll \in Bases
    /\ ret = Outcome("init", <<>>, Return(None))
    /\ host = 0

NextMerge == AddTabbedItem

SpecMerge == InitMerge /\ [][NextMerge]_vars

(* ---------------------------------------------------------------------- *)
(* Vocabulary of the properties                                           *)
(* ---------------------------------------------------------------------- *)
IsSequence(v) == v.type = "tuple" \/ v.type = "list"
Range(s) == {s[k] : k \in 1..Len(s)}
NoDuplicates(s) == \A p, q \in 1..Len(s) : s[p] = s[q] => p = q
Returned == ret.exc = "none"

\* a tab is a list or tuple of two elements whose second is a list or tuple
PairTab(tab) ==
    /\ IsSequence(tab)
    /\ Len(tab.elems) = 2
    /\ IsSequence(tab.elems[2])
\* an entry is a two-element pair
PairEntry(e) == IsSequence(e) /\ Len(e.elems) = 2
\* an entry the parser can name: a list or tuple with a name and a
\* configuration, or a class
Formattable(e) == (IsSequence(e) /\ Len(e.elems) >= 2) \/ e.type = "class"

\* the validation failure a malformed tab calls for
ValidationFailure(tab) ==
    IF IsSequence(tab) /\ Len(tab.elems) # 2 THEN "ValueError" ELSE "TypeError"

\* every tab is a pair tab and every entry can be named
WellFormed(t) ==
    /\ IsSequence(t)
    /\ \A i \in 1..Len(t.elems) :
          /\ PairTab(t.elems[i])
          /\ \A e \in Range(t.elems[i].elems[2].elems) : Formattable(e)

\* the entries of the tabs from the i-th on, in order
RECURSIVE EntriesFrom(_, _)
EntriesFrom(t, i) ==
    IF i > Len(t.elems) THEN <<>>
    ELSE t.elems[i].elems[2].elems \o EntriesFrom(t, i + 1)
AllEntries(t) == EntriesFrom(t, 1)
FieldsetEntries(t) == SelectSeq(AllEntries(t), IsSequence)
IsNoSequence(v) == ~IsSequence(v)
InlineEntries(t) == SelectSeq(AllEntries(t), IsNoSequence)

\* index of the first occurrence of x in s
FirstIndex(s, x) == CHOOSE k \in 1..Len(s) : s[k] = x /\ \A m \in 1..(k - 1) : s[m] # x

(* ---------------------------------------------------------------------- *)
(* C1                                                                     *)
(* ---------------------------------------------------------------------- *)
\* C1: with tabs = None, get_fieldsets and get_inlines return without an
\* error, and return the declared fieldsets (inlines) unchanged.
C1_DefaultsWhenNoTabs ==
    /\ (tabs = None /\ ret.op = "get_fieldsets") => (Returned /\ ret.val = fieldsets)
    /\ (tabs = None /\ ret.op = "get_inlines") => (Returned /\ ret.val = inlines)

(* ---------------------------------------------------------------------- *)
(* C2                                                                     *)
(* ---------------------------------------------------------------------- *)
\* C2: with tabs = (), the 'fieldsets' and 'inlines' of the result of
\* get_formatted_tabs are both empty, and so are the collections that
\* get_fieldsets and get_inlines get from them.
C2_NoTabsNoDerivedItems ==
    /\ (tabs = Tuple(<<>>) /\ ret.op = "get_formatted_tabs") =>
          /\ Returned
          /\ GetItem(ret.val, "fieldsets") = Return(Tuple(<<>>))
          /\ GetItem(ret.val, "inlines") = Return(Tuple(<<>>))
    /\ (tabs = Tuple(<<>>) /\ ret.op \in {"get_fieldsets", "get_inlines"}) =>
          (Returned /\ ret.val.elems = <<>>)

(* ---------------------------------------------------------------------- *)
(* C3                                                                     *)
(* ---------------------------------------------------------------------- *)
\* the result holds the tab entries of one kind, all of them and nothing
\* else, and no declared item that is in no tab
DerivedOnly(result, declared, sequences) ==
    /\ \A x \in Range(result.elems) :
          x \in Range(AllEntries(tabs)) /\ IsSequence(x) = sequences
    /\ \A e \in Range(AllEntries(tabs)) :
          IsSequence(e) = sequences => e \in Range(result.elems)
    /\ \A d \in Range(declared.elems) :
          d \notin Range(AllEntries(tabs)) => d \notin Range(result.elems)

\* C3: when tabs is set and well formed, what get_fieldsets (get_inlines)
\* returns is made of the field groups (editors) of the tabs only: each item
\* returned is an entry of a tab, each entry of that kind is returned, and no
\* declared fieldset (inline) that is in no tab is returned.  A well-formed
\* specification with at least one tab does return.
C3_TabsReplaceDeclared ==
    /\ (ret.op = "get_fieldsets" /\ tabs # None /\ WellFormed(tabs)) =>
          /\ Truthy(tabs) => Returned
          /\ Returned => DerivedOnly(ret.val, fieldsets, TRUE)
    /\ (ret.op = "get_inlines" /\ tabs # None /\ WellFormed(tabs)) =>
          /\ Truthy(tabs) => Returned
          /\ Returned => DerivedOnly(ret.val, inlines, FALSE)

\* get_fieldsets returned the two field groups of the tabs, and left out a
\* declared fieldset that no tab lists
C3_Witness ==
    /\ ret.op = "get_fieldsets" /\ Returned
    /\ tabs # None /\ WellFormed(tabs)
    /\ Range(ret.val.elems) = {FsNames, FsTriple}
    /\ FsStatic \in Range(fieldsets.elems)

(* ---------------------------------------------------------------------- *)
(* C4                                                                     *)
(* ---------------------------------------------------------------------- *)
\* C4: add_tabbed_item returns the base items first, all of them and in
\* their order, then each item to add that the base did not hold, once, in
\* the order of first occurrence among the items to add.
C4_MergeAppendsNewItems ==
    ret.op = "add_tabbed_item" =>
        LET items == ret.args[1].elems
            base == ret.args[2].elems
            result == ret.val.elems
            n == Len(base)
            added == SubSeq(result, n + 1, Len(result))
        IN  /\ Returned
            /\ ret.val.type = ret.args[2].type
            /\ Len(result) >= n
            /\ SubSeq(result, 1, n) = base
            /\ Range(added) = Range(items) \ Range(base)
            /\ NoDuplicates(added)
            /\ \A p, q \in 1..Len(added) :
                  p < q => FirstIndex(items, added[p]) < FirstIndex(items, added[q])

\* a base of two items, one of them listed again among the items to add,
\* and two new items added in the order they were listed
C4_Witness ==
    /\ ret.op = "add_tabbed_item" /\ Returned
    /\ ret.args[2] = List(<<InlineA, InlineA>>)
    /\ ret.args[1] = Tuple(<<FsDates, InlineA, FsNames>>)
    /\ ret.val = List(<<InlineA, InlineA, FsDates, FsNames>>)

(* ---------------------------------------------------------------------- *)
(* C5                                                                     *)
(* ---------------------------------------------------------------------- *)
\* C5: what get_fieldsets and get_inlines return for a well-formed tab
\* specification holds no item twice, also when a field group or an editor
\* is listed in several tabs or several times in a tab.
C5_NoDuplicateItems ==
    (ret.op \in {"get_fieldsets", "get_inlines"} /\ WellFormed(tabs) /\ Returned)
        => NoDuplicates(ret.val.elems)

\* the same editor is listed in two tabs and returned once
C5_Witness ==
    /\ ret.op = "get_inlines" /\ Returned
    /\ WellFormed(tabs)
    /\ Len(tabs.elems) = 2
    /\ InlineA \in Range(tabs.elems[1].elems[2].elems)
    /\ InlineA \in Range(tabs.elems[2].elems[2].elems)
    /\ ret.val = Tuple(<<InlineA>>)

(* ---------------------------------------------------------------------- *)
(* C6                                                                     *)
(* ---------------------------------------------------------------------- *)
\* the formatted entry of entry j of tab i in a returned parse
FormattedEntry(i, j) == ret.val.fields[i].entries[j]
TabEntry(i, j) == tabs.elems[i].elems[2].elems[j]
ParseReturned == ret.op = "parse_fieldsets_inlines_from_tabs" /\ Returned

\* each entry of each tab has the kind `kind` gives it, and is in the
\* derived collection of that kind
ClassifiedBy(kind(_)) ==
    \A i \in 1..Len(tabs.elems) :
        \A j \in 1..Len(tabs.elems[i].elems[2].elems) :
            /\ FormattedEntry(i, j).type = kind(TabEntry(i, j))
            /\ kind(TabEntry(i, j)) = "fieldset" =>
                  TabEntry(i, j) \in Range(ret.val.fieldsets.elems)
            /\ kind(TabEntry(i, j)) = "inline" =>
                  TabEntry(i, j) \in Range(ret.val.inlines.elems)

KindOfPairs(e) == IF PairEntry(e) THEN "fieldset" ELSE "inline"
KindOfSequences(e) == IF IsSequence(e) THEN "fieldset" ELSE "inline"

\* C6, as stated: an entry that is a two-element pair is a field group, any
\* other entry is an editor reference.
C6_PairsAreFieldsets == ParseReturned => ClassifiedBy(KindOfPairs)

\* C6, amended: an entry that is a list or tuple, whatever its length, is a
\* field group, and an entry that is not a list or tuple is an editor
\* reference; each entry of a specification that parses gets exactly one of
\* the two kinds.  Parsing raises IndexError on a list or tuple of fewer than
\* two elements and AttributeError on an entry that is neither a list or
\* tuple nor a class, when they are the first thing wrong in the
\* specification, and returns when there is no such entry in tabs that pass
\* the integrity checks.
C6_SequencesAreFieldsets ==
    ret.op = "parse_fieldsets_inlines_from_tabs" =>
        /\ Returned => /\ ClassifiedBy(KindOfSequences)
                       /\ \A e \in Range(AllEntries(tabs)) : Formattable(e)
                       /\ Len(AllEntries(tabs)) =
                             Len(ret.val.fieldsets.elems) + Len(ret.val.inlines.elems)
        /\ (tabs # None /\ WellFormed(tabs)) => Returned
        /\ (/\ tabs # None
            /\ \A i \in 1..Len(tabs.elems) : PairTab(tabs.elems[i])
            /\ ~WellFormed(tabs)) =>
              LET bad == SelectSeq(AllEntries(tabs), LAMBDA e : ~Formattable(e))
              IN  ret.exc = IF IsSequence(bad[1]) THEN "IndexError" ELSE "AttributeError"

\* a tuple of three elements was classified as a field group, next to an
\* editor reference
C6_Witness ==
    /\ ParseReturned
    /\ \E i \in 1..Len(tabs.elems) :
          /\ Len(tabs.elems[i].elems[2].elems) = 2
          /\ TabEntry(i, 1) = FsTriple /\ FormattedEntry(i, 1).type = "fieldset"
          /\ TabEntry(i, 2) = InlineA /\ FormattedEntry(i, 2).type = "inline"

(* ---------------------------------------------------------------------- *)
(* C7                                                                     *)
(* ---------------------------------------------------------------------- *)
\* the first tab that is not a pair tab, the tabs before it being well
\* formed; 0 if there is none
FirstMalformed(t) ==
    IF \E i \in 1..Len(t.elems) : ~PairTab(t.elems[i])
    THEN LET i == CHOOSE i \in 1..Len(t.elems) :
                      /\ ~PairTab(t.elems[i])
                      /\ \A k \in 1..(i - 1) : PairTab(t.elems[k])
         IN  IF \A k \in 1..(i - 1) :
                    \A e \in Range(t.elems[k].elems[2].elems) : Formattable(e)
             THEN i ELSE 0
    ELSE 0

\* C7: when a tab is not a list or tuple, or has not two elements, or has
\* entries that are not a list or tuple, get_formatted_tabs, get_fieldsets,
\* get_inlines and the parser raise and return nothing, on every call; the
\* exception is the validation failure of the first such tab (TypeError,
\* ValueError for the number of elements) when the tabs before it are well
\* formed, however many they are.
C7_MalformedTabRaises ==
    (/\ ret.op \in {"get_formatted_tabs", "get_fieldsets", "get_inlines",
                    "parse_fieldsets_inlines_from_tabs"}
     /\ tabs # None
     /\ \E i \in 1..Len(tabs.elems) : ~PairTab(tabs.elems[i]))
    => /\ ~Returned
       /\ ret.val = None
       /\ FirstMalformed(tabs) # 0 =>
             ret.exc = ValidationFailure(tabs.elems[FirstMalformed(tabs)])

\* get_inlines raised ValueError for a one-element tab that follows two
\* well-formed tabs, one of them with an entry
C7_Witness ==
    /\ ret.op = "get_inlines" /\ ret.exc = "ValueError"
    /\ tabs # None /\ Len(tabs.elems) = 3
    /\ FirstMalformed(tabs) = 3
    /\ Len(AllEntries(Tuple(SubSeq(tabs.elems, 1, 2)))) = 1

(* ---------------------------------------------------------------------- *)
(* C8                                                                     *)
(* ---------------------------------------------------------------------- *)
\* the name an entry is listed under: its first element, or its __name__
NameOf(e) == IF IsSequence(e) THEN e.elems[1] ELSE Str(e.name)

RECURSIVE CountEntries(_, _)
CountEntries(fields, i) ==
    IF i > Len(fields) THEN 0
    ELSE Len(fields[i].entries) + CountEntries(fields, i + 1)

\* C8: for a well-formed specification the parser returns one formatted tab
\* per tab, in order, named by the label of the tab, with one entry per tab
\* entry, in order, with its kind and its name; the derived fieldsets are the
\* entries of kind fieldset of all tabs in order, the derived inlines those
\* of kind inline, and the formatted entries are as many as both together.
C8_FormattedTabsMirrorTabs ==
    (ret.op = "parse_fieldsets_inlines_from_tabs" /\ tabs # None /\ WellFormed(tabs)) =>
        /\ Returned
        /\ DOMAIN ret.val = {"fields", "fieldsets", "inlines"}
        /\ Len(ret.val.fields) = Len(tabs.elems)
        /\ \A i \in 1..Len(tabs.elems) :
              /\ ret.val.fields[i].name = tabs.elems[i].elems[1]
              /\ Len(ret.val.fields[i].entries) = Len(tabs.elems[i].elems[2].elems)
              /\ \A j \in 1..Len(tabs.elems[i].elems[2].elems) :
                    /\ FormattedEntry(i, j).type = KindOfSequences(TabEntry(i, j))
                    /\ FormattedEntry(i, j).name = NameOf(TabEntry(i, j))
        /\ ret.val.fieldsets = Tuple(FieldsetEntries(tabs))
        /\ ret.val.inlines = Tuple(InlineEntries(tabs))
        /\ CountEntries(ret.val.fields, 1) =
              Len(ret.val.fieldsets.elems) + Len(ret.val.inlines.elems)

\* two tabs with different labels, an editor before a field group
C8_Witness ==
    /\ ParseReturned
    /\ tabs = Tuple(<<Tuple(<<Str("Extra"), Tuple(<<InlineA>>)>>),
                      Tuple(<<Str("Main"), Tuple(<<FsNames>>)>>)>>)
    /\ ret.val.fields[1].name = Str("Extra")
    /\ ret.val.fields[2].entries[1].name = Str("Names")

(* ---------------------------------------------------------------------- *)
(* C9                                                                     *)
(* ---------------------------------------------------------------------- *)
\* C9: no call writes the tab specification, the declared fieldsets and
\* inlines, or the base collection passed to add_tabbed_item.
C9_NothingWritten ==
    [][/\ tabs' = tabs
       /\ fieldsets' = fieldsets
       /\ inlines' = inlines
       /\ coll' = coll]_vars

(* ---------------------------------------------------------------------- *)
(* C10                                                                    *)
(* ---------------------------------------------------------------------- *)
\* C10: when the host's change view takes form_url, change_view calls it at
\* most once in a request, whatever it raises.
C10_HostViewCalledOnce ==
    (ret.op = "change_view" /\ ret.args[1]) => host <= 1

====
